---- MODULE Spec2Model ----
(***************************************************************************)
(* RagFlow log analyzer (src/docker/analyze.py): reconstruction of chat    *)
(* conversations from the HISTORY blocks of a server log.                  *)
(*                                                                         *)
(* A log is the sequence of its HISTORY blocks in file order.  A block is  *)
(*   [ts, payload, text]                                                   *)
(*   ts      the leading timestamp: a point of Time, or BadDate for digits *)
(*           that match the timestamp pattern and are no date/time;        *)
(*   payload what follows the marker: no array/object, an array that never *)
(*           closes, a balanced array that json.loads rejects, or the      *)
(*           decoded array of elements;                                    *)
(*   text    the lines of the block that may hold document records.        *)
(* Strings are sequences of one-character strings, so that str.strip() is  *)
(* computed and not assumed.                                               *)
(***************************************************************************)
EXTENDS Integers, Sequences, FiniteSets, TLC

VARIABLES
  logfile,        \* the file at logfile_path: absent, or its blocks in file order
  conversations,  \* self.conversations: entry i is stored under "conversation_<i>"
  outcome,        \* how the last analyze_logfile call ended: "none" before any call
  calls,          \* completed analyze_logfile calls (history, capped at MaxCalls)
  clock,          \* the wall clock: the last value datetime.now() returned
  touched,        \* the file changed since the last completed call (history)
  claimed,        \* claimed[i]: file position of the block entry i was built from (history)
  previous,       \* self.conversations as the last completed call found it (history)
  reread,         \* the last completed call read the text the one before it read (history)
  json_part,      \* bracket scan: the payload after the marker, stripped
  json_str,       \* bracket scan: the substring handed to json.loads
  lines,          \* segmenter: content.split('\n')
  segments        \* segmenter: the history_blocks list it leaves

vars == <<logfile, conversations, claimed, outcome, calls, clock, touched,
          previous, reread, json_part, json_str, lines, segments>>

----------------------------------------------------------------------------
(* Bounds of the exploration.                                              *)
MaxBlocks == 2
MaxLogTurns == 3
MaxTime == 3
MaxNow == 2
MaxCalls == 2
MaxLen == 7

Time == 1..MaxTime
BadDate == 0
File(blocks) == [present |-> TRUE, blocks |-> blocks]
NoFile == [present |-> FALSE, blocks |-> <<>>]

----------------------------------------------------------------------------
(* Strings.                                                                *)
hi == <<"h", "i">>
bye == <<"b", "y", "e">>
hello == <<"h", "e", "l", "l", "o">>
hi_padded == <<"\t", " ", "h", "i", "\n">>
EmptyStr == <<>>

(* The characters str.strip() removes and \s matches: blank, tab, newline, *)
(* carriage return, form feed; "VT" stands for the vertical tab and "NBSP" *)
(* for the whitespace characters beyond ASCII, which str.strip() and \s    *)
(* of a str pattern treat alike.                                           *)
Whitespace == {" ", "\t", "\n", "\r", "\f", "VT", "NBSP"}

RECURSIVE LStrip(_)
LStrip(s) == IF s # <<>> /\ Head(s) \in Whitespace THEN LStrip(Tail(s)) ELSE s

RECURSIVE RStrip(_)
RStrip(s) ==
  IF s # <<>> /\ s[Len(s)] \in Whitespace
  THEN RStrip(SubSeq(s, 1, Len(s) - 1)) ELSE s

Strip(s) == RStrip(LStrip(s))

----------------------------------------------------------------------------
(* Elements of a decoded HISTORY array.  An element is a dict with a role  *)
(* and a content that is a string, absent, or of another JSON type; or it  *)
(* is no dict at all.                                                      *)
Dict(role, c) == [dict |-> TRUE, role |-> role, ckind |-> "str", content |-> c]
DictNoContent(role) ==
  [dict |-> TRUE, role |-> role, ckind |-> "absent", content |-> EmptyStr]
DictOddContent(role) ==
  [dict |-> TRUE, role |-> role, ckind |-> "other", content |-> EmptyStr]
NonDict == [dict |-> FALSE, role |-> "", ckind |-> "other", content |-> EmptyStr]

User(c) == Dict("user", c)
Assistant(c) == Dict("assistant", c)

(* msg.get('content', ''): the default only when the key is absent.        *)
GetContent(msg) == IF msg.ckind = "absent" THEN EmptyStr ELSE msg.content

(* msg.get(...) needs a dict and .strip() a string: AttributeError.        *)
RoleRaises(msg) == ~msg.dict
ContentRaises(msg) == msg.ckind = "other"

Array(data) == [kind |-> "array", data |-> data]
NoJson == [kind |-> "nojson", data |-> <<>>]
Unclosed == [kind |-> "unclosed", data |-> <<>>]
BadJson == [kind |-> "badjson", data |-> <<>>]
(* Brackets nested deeper than the interpreter's recursion limit:          *)
(* json.loads raises RecursionError, which is no ValueError.               *)
TooDeep == [kind |-> "toodeep", data |-> <<>>]

Block(ts, payload, text) == [ts |-> ts, payload |-> payload, text |-> text]

----------------------------------------------------------------------------
(* extract_context_documents.  A text is a sequence of tokens: the         *)
(* whitespace characters, the literals of the pattern                      *)
(*   "ID:"  "|--" (the glyphs before Title:)  "Title:"  "L--" (the glyphs  *)
(*   before Content:)  "Content:"  "------"  "}"  "]"  ","                 *)
(* the escaped newline "\\n" (a backslash and an n), runs of digits, and   *)
(* any other word.  The pattern of line 54 is matched on the tokens as     *)
(* re.findall matches it on the characters: leftmost, each greedy          *)
(* quantifier as long and the lazy one as short as the rest allows.        *)
Newline == "\n"
EscapedNewline == "\\n"
Digits == {"1", "2", "3"}

IsSpace(tok) == tok \in Whitespace
IsDigit(tok) == tok \in Digits
NotNewline(tok) == tok # Newline
AnyToken(tok) == TRUE

(* One line of each shape, and the text of a list of lines.                *)
IdLine(v) == <<"ID:", " ", v>>
TitleLine(v) == <<"|--", " ", "Title:", " ", v>>
ContentLine(v) == <<"L--", " ", "Content:", " ", v>>
SepLine == <<"------">>
TextLine(v) == <<v>>

RECURSIVE JoinLines(_, _)
JoinLines(lns, sep) ==
  IF lns = <<>> THEN <<>>
  ELSE IF Len(lns) = 1 THEN lns[1]
  ELSE lns[1] \o <<sep>> \o JoinLines(Tail(lns), sep)

(* Lines 50-51: if '\\n' in log_content: replace('\\n', '\n').             *)
Unescape(log_content) ==
  [i \in 1..Len(log_content) |->
     IF log_content[i] = EscapedNewline THEN Newline ELSE log_content[i]]

(* The pattern of line 54, element by element.  q is "one" for a literal,  *)
(* "greedy" for * and + (min tells them apart), "lazy" for *?, and "ahead" *)
(* for the lookahead that closes it.                                       *)
Lit(tok) == [q |-> "one", tok |-> tok, class |-> "", min |-> 1]
Greedy(class, min) == [q |-> "greedy", tok |-> "", class |-> class, min |-> min]
Lazy(class) == [q |-> "lazy", tok |-> "", class |-> class, min |-> 0]
Ahead == [q |-> "ahead", tok |-> "", class |-> "", min |-> 0]

Pattern ==
  << Lit("ID:"), Greedy("space", 0), Greedy("digit", 1), Greedy("space", 0),
     Lit("|--"), Greedy("space", 0), Lit("Title:"), Greedy("space", 0),
     Greedy("notnewline", 1), Greedy("space", 0),
     Lit("L--"), Greedy("space", 0), Lit("Content:"), Greedy("space", 0),
     Lazy("any"), Ahead >>

IdGroup == 3
TitleGroup == 9
ContentGroup == 15

InClass(class, tok) ==
  CASE class = "space" -> IsSpace(tok)
    [] class = "digit" -> IsDigit(tok)
    [] class = "notnewline" -> NotNewline(tok)
    [] OTHER -> AnyToken(tok)

(* The number of tokens of `class` in a row from position p on.            *)
RECURSIVE RunLength(_, _, _)
RunLength(text, p, class) ==
  IF p <= Len(text) /\ InClass(class, text[p])
  THEN 1 + RunLength(text, p + 1, class) ELSE 0

AfterSpace(text, p) == p + RunLength(text, p, "space")

TokenAt(text, p) == IF p >= 1 /\ p <= Len(text) THEN text[p] ELSE "\\Z"

(* After a newline and the whitespace behind it: "------", "}" then ",",   *)
(* or "]" then "}", whitespace allowed between the two.                    *)
ClosesContent(text, q) ==
  \/ TokenAt(text, q) = "------"
  \/ TokenAt(text, q) = "}" /\ TokenAt(text, AfterSpace(text, q + 1)) = ","
  \/ TokenAt(text, q) = "]" /\ TokenAt(text, AfterSpace(text, q + 1)) = "}"

(* (?=\n\s*------|\nID:|\n\s*\}\s*,|\n\s*\]\s*\}|\Z)                       *)
LookaheadAt(text, p) ==
  \/ p = Len(text) + 1
  \/ /\ TokenAt(text, p) = Newline
     /\ \/ TokenAt(text, p + 1) = "ID:"
        \/ ClosesContent(text, AfterSpace(text, p + 1))

(* The numbers of tokens element e of the pattern may take at position p:  *)
(* a literal its one token, a quantifier from its least count up to the    *)
(* run of its class.                                                       *)
Range(text, e, p) ==
  IF e.q = "one" THEN (IF TokenAt(text, p) = e.tok THEN {1} ELSE {})
  ELSE e.min..RunLength(text, p, e.class)

NoMatch == <<>>

(* The count the engine tries first for element e at position p: a greedy  *)
(* quantifier the whole run of its class, the lazy one nothing.            *)
FirstCount(text, e, p) ==
  IF e.q = "greedy" THEN RunLength(text, p, e.class)
  ELSE IF e.q = "one" THEN 1 ELSE 0

(* The count it tries after n has failed.                                  *)
NextCount(e, n) == IF e.q = "lazy" THEN n + 1 ELSE n - 1

(* The match of elements k.. of the pattern from position p, element k     *)
(* tried with n tokens first and then with the counts that follow n: the   *)
(* positions at which the elements start, the last being the position      *)
(* after the match, or NoMatch.  This is the backtracking search of re:    *)
(* the first way through the quantifiers' choices that reaches the end.    *)
RECURSIVE MatchFrom(_, _, _, _)
Retry(text, k, p, n, rest) ==
  IF rest # NoMatch THEN <<p>> \o rest
  ELSE MatchFrom(text, k, p, NextCount(Pattern[k], n))

MatchFrom(text, k, p, n) ==
  IF Pattern[k].q = "ahead" THEN (IF LookaheadAt(text, p) THEN <<p>> ELSE NoMatch)
  ELSE IF n \notin Range(text, Pattern[k], p) THEN NoMatch
  ELSE Retry(text, k, p, n,
             MatchFrom(text, k + 1, p + n, FirstCount(text, Pattern[k + 1], p + n)))

Fewest(counts) == CHOOSE n \in counts : \A m \in counts : n <= m

Group(text, m, g) == SubSeq(text, m[g], m[g + 1] - 1)

(* Line 62: re.sub(r'\s*\}\s*,?\s*\]\s*\}?\s*$', '', content_clean).       *)
SkipOptional(c, p, tok) == AfterSpace(c, IF TokenAt(c, p) = tok THEN p + 1 ELSE p)

BracketToEnd(c, d) ==
  TokenAt(c, d) = "]" /\ SkipOptional(c, AfterSpace(c, d + 1), "}") = Len(c) + 1

BraceToEnd(c, a) ==
  TokenAt(c, a) = "}" /\ BracketToEnd(c, SkipOptional(c, AfterSpace(c, a + 1), ","))

CloserTailAt(c, i) == BraceToEnd(c, AfterSpace(c, i))

CutAt(c, tails) == IF tails = {} THEN c ELSE SubSeq(c, 1, Fewest(tails) - 1)

DropCloserTail(c) == CutAt(c, {i \in 1..Len(c) : CloserTailAt(c, i)})

(* Lines 57-67: one record per match.                                      *)
Document(text, m) ==
  [id |-> Strip(Group(text, m, IdGroup)),
   title |-> Strip(Group(text, m, TitleGroup)),
   content |-> DropCloserTail(Strip(Group(text, m, ContentGroup)))]

(* re.findall: the matches from left to right, each search resuming where  *)
(* the match before it ended.                                              *)
RECURSIVE FindAllDocuments(_, _)
FindAllDocuments(text, p) ==
  IF p > Len(text) THEN <<>>
  ELSE LET m == MatchFrom(text, 1, p, FirstCount(text, Pattern[1], p))
       IN  (IF m # NoMatch THEN <<Document(text, m)>> ELSE <<>>)
             \o FindAllDocuments(text, IF m # NoMatch THEN m[Len(m)] ELSE p + 1)

extract_context_documents(log_content) ==
  FindAllDocuments(Unescape(log_content), 1)

----------------------------------------------------------------------------
(* The bracket scan of analyze_logfile: one pass over json_part with the   *)
(* string flag, the escape flag and the bracket depth.  It returns the     *)
(* index of the closing bracket, or len(json_part) when there is none.     *)
Quote == "\""
Backslash == "\\"

RECURSIVE ScanFrom(_, _, _, _, _)
ScanFrom(s, k, bracket_count, in_string, escape_next) ==
  IF k > Len(s) THEN Len(s)
  ELSE IF escape_next THEN ScanFrom(s, k + 1, bracket_count, in_string, FALSE)
  ELSE IF s[k] = Backslash /\ in_string
       THEN ScanFrom(s, k + 1, bracket_count, in_string, TRUE)
  ELSE LET now_in_string == IF s[k] = Quote THEN ~in_string ELSE in_string
           count == IF now_in_string THEN bracket_count
                    ELSE IF s[k] = "[" THEN bracket_count + 1
                    ELSE IF s[k] = "]" THEN bracket_count - 1
                    ELSE bracket_count
       IN  IF ~now_in_string /\ s[k] = "]" /\ count = 0 THEN k
           ELSE ScanFrom(s, k + 1, count, now_in_string, FALSE)

(* The scan without the escape flag: every quote toggles the string flag.  *)
RECURSIVE ScanNoEscape(_, _, _, _)
ScanNoEscape(s, k, bracket_count, in_string) ==
  IF k > Len(s) THEN Len(s)
  ELSE LET now_in_string == IF s[k] = Quote THEN ~in_string ELSE in_string
           count == IF now_in_string THEN bracket_count
                    ELSE IF s[k] = "[" THEN bracket_count + 1
                    ELSE IF s[k] = "]" THEN bracket_count - 1
                    ELSE bracket_count
       IN  IF ~now_in_string /\ s[k] = "]" /\ count = 0 THEN k
           ELSE ScanNoEscape(s, k + 1, count, now_in_string)

JsonEndNoEscape(s) == ScanNoEscape(s, 1, 0, FALSE)

JsonEnd(s) == ScanFrom(s, 1, 0, FALSE, FALSE)

(* Lines 301-331: strip, accept an array, wrap an object, refuse the rest. *)
ExtractJson(after_marker) ==
  LET stripped == Strip(after_marker)
      part == IF stripped # <<>> /\ Head(stripped) = "{"
              THEN <<"[">> \o stripped ELSE stripped
  IN  IF part = <<>> \/ Head(part) # "["
      THEN [st |-> "nojson", str |-> <<>>]
      ELSE [st |-> "scanned", str |-> SubSeq(part, 1, JsonEnd(part))]

----------------------------------------------------------------------------
(* parse_timestamp: a valid date/time is itself, anything else is now().   *)
parse_timestamp(timestamp_str, now) ==
  IF timestamp_str \in Time THEN timestamp_str ELSE now

(* The segmented blocks, in file order; nows[i] is what datetime.now()     *)
(* would return while block i is segmented.                                *)
HistoryBlocks(log, nows) ==
  [i \in 1..Len(log) |->
     [timestamp |-> parse_timestamp(log[i].ts, nows[i]),
      timestamp_str |-> log[i].ts,
      payload |-> log[i].payload,
      text |-> log[i].text,
      line_number |-> i]]

(* The claimed conversations left in the order they were claimed.          *)
KeepFoundOrder(found) == found

(* list.sort(key=timestamp): stable, ascending.                            *)
RECURSIVE InsertOldestFirst(_, _)
InsertOldestFirst(sorted, x) ==
  IF sorted = <<>> THEN <<x>>
  ELSE IF Head(sorted).timestamp <= x.timestamp
       THEN <<Head(sorted)>> \o InsertOldestFirst(Tail(sorted), x)
       ELSE <<x>> \o sorted

RECURSIVE SortOldestFirst(_)
SortOldestFirst(found) ==
  IF found = <<>> THEN <<>>
  ELSE InsertOldestFirst(SortOldestFirst(SubSeq(found, 1, Len(found) - 1)),
                         found[Len(found)])

(* The newest-first sort with reverse=True left out.                       *)
SortWithoutReverse(blocks) == SortOldestFirst(blocks)

(* list.sort(key=timestamp, reverse=True): stable, equal keys keep their   *)
(* original order.                                                         *)
RECURSIVE InsertNewestFirst(_, _)
InsertNewestFirst(sorted, x) ==
  IF sorted = <<>> THEN <<x>>
  ELSE IF Head(sorted).timestamp >= x.timestamp
       THEN <<Head(sorted)>> \o InsertNewestFirst(Tail(sorted), x)
       ELSE <<x>> \o sorted

RECURSIVE SortNewestFirst(_)
SortNewestFirst(blocks) ==
  IF blocks = <<>> THEN <<>>
  ELSE InsertNewestFirst(SortNewestFirst(SubSeq(blocks, 1, Len(blocks) - 1)),
                         blocks[Len(blocks)])

----------------------------------------------------------------------------
(* The reconstruction loop of analyze_logfile.  A step that raises         *)
(* AttributeError (a .get on a non-dict, a .strip on a non-string) or that *)
(* json.loads ends with RecursionError is not caught by                    *)
(* `except (json.JSONDecodeError, ValueError)`: it ends the call.          *)
NoResponse == <<"[Keine Claude-Antwort gefunden]">>

Decodes(payload) == payload.kind = "array"

DecodeRaises(payload) == payload.kind = "toodeep"

(* What a step raised past the handlers of lines 436 and 463.              *)
NotRaised == "none"

FirstRaised(built) ==
  LET hits == {i \in 1..Len(built) : built[i].raised # NotRaised}
  IN  IF hits = {} THEN NotRaised
      ELSE built[CHOOSE i \in hits : \A h \in hits : i <= h].raised

IsUser(msg) == msg.role = "user"

(* [msg.get('content', '').strip() for msg in data if msg.get('role') == 'user'] *)
UserMessagesRaises(data) ==
  \E i \in 1..Len(data) :
     RoleRaises(data[i]) \/ (IsUser(data[i]) /\ ContentRaises(data[i]))

UserMessages(data) ==
  LET turns == SelectSeq(data, IsUser)
  IN  [i \in 1..Len(turns) |-> Strip(GetContent(turns[i]))]

(* The test with a strict length comparison: an equal list is no subset.   *)
IsStrictSubset(user_messages, found_conversations) ==
  \E n \in 1..Len(found_conversations) :
     LET existing_messages == found_conversations[n].user_messages
     IN  /\ Len(user_messages) < Len(existing_messages)
         /\ user_messages = SubSeq(existing_messages, 1, Len(user_messages))

(* Lines 341-349: the sequence is a prefix of one already found.           *)
IsSubset(user_messages, found_conversations) ==
  \E n \in 1..Len(found_conversations) :
     LET existing_messages == found_conversations[n].user_messages
     IN  /\ Len(user_messages) <= Len(existing_messages)
         /\ user_messages = SubSeq(existing_messages, 1, Len(user_messages))

(* Lines 364-372: the first user turn whose stripped text equals user_msg, *)
(* then the first assistant turn after it.                                 *)
(* The least index of `hits`, 0 when the loop runs out.                    *)
FirstOf(hits) == IF hits = {} THEN 0 ELSE CHOOSE j \in hits : \A h \in hits : j <= h

IsAssistant(msg) == msg.role = "assistant"

FirstUserTurnWith(data, user_msg) ==
  FirstOf({j \in 1..Len(data) :
             IsUser(data[j]) /\ Strip(GetContent(data[j])) = user_msg})

FirstAssistantAfter(data, j) ==
  FirstOf({k \in (j + 1)..Len(data) : IsAssistant(data[k])})

FindResponse(data, user_msg) ==
  LET j == FirstUserTurnWith(data, user_msg)
      k == IF j = 0 THEN 0 ELSE FirstAssistantAfter(data, j)
  IN  IF k = 0 THEN [raised |-> NotRaised, value |-> NoResponse]
      ELSE IF ContentRaises(data[k])
      THEN [raised |-> "AttributeError", value |-> NoResponse]
      ELSE [raised |-> NotRaised, value |-> Strip(GetContent(data[k]))]

(* Lines 380-437: the first block, in the sorted order, with exactly       *)
(* target_msg_count user messages of which the last is user_msg.           *)
RECURSIVE SearchContextDocs(_, _, _, _)
SearchContextDocs(history_blocks, p, target_msg_count, user_msg) ==
  IF p > Len(history_blocks) THEN [raised |-> NotRaised, value |-> <<>>]
  ELSE LET search_block == history_blocks[p]
           data == search_block.payload.data
           search_user_messages == UserMessages(data)
       IN  IF DecodeRaises(search_block.payload)
           THEN [raised |-> "RecursionError", value |-> <<>>]
           ELSE IF Decodes(search_block.payload) /\ UserMessagesRaises(data)
           THEN [raised |-> "AttributeError", value |-> <<>>]
           ELSE IF /\ Decodes(search_block.payload)
                   /\ Len(search_user_messages) = target_msg_count
                   /\ Len(search_user_messages) > 0
                   /\ search_user_messages[Len(search_user_messages)] = user_msg
           THEN [raised |-> NotRaised,
                 value |-> extract_context_documents(search_block.text)]
           ELSE SearchContextDocs(history_blocks, p + 1, target_msg_count, user_msg)

(* The message with the documents of the claimed block's own text.         *)
BuildMessageOwnText(history_blocks, hist_block, user_messages, i) ==
  LET response == FindResponse(hist_block.payload.data, user_messages[i])
  IN  [raised |-> response.raised,
       value |-> [timestamp |-> hist_block.timestamp,
                  user_message |-> user_messages[i],
                  claude_response |-> response.value,
                  context_documents |-> extract_context_documents(hist_block.text)]]

(* Lines 359-445: one Message per user message of the claimed block.       *)
BuildMessage(history_blocks, hist_block, user_messages, i) ==
  LET response == FindResponse(hist_block.payload.data, user_messages[i])
      docs == SearchContextDocs(history_blocks, 1, i, user_messages[i])
  IN  [raised |-> IF response.raised # NotRaised THEN response.raised
                  ELSE docs.raised,
       value |-> [timestamp |-> hist_block.timestamp,
                  user_message |-> user_messages[i],
                  claude_response |-> response.value,
                  context_documents |-> docs.value]]

(* The conversation with message_count taken from the whole turn list.     *)
BuildConversationCountingTurns(history_blocks, hist_block, user_messages, ordinal) ==
  LET built == [i \in 1..Len(user_messages) |->
                  BuildMessage(history_blocks, hist_block, user_messages, i)]
  IN  [raised |-> FirstRaised(built),
       value |->
         [user_messages |-> user_messages,
          timestamp |-> hist_block.timestamp,
          line_number |-> hist_block.line_number,
          conversation |->
            [chat_id |-> [ordinal |-> ordinal, stamp |-> hist_block.timestamp],
             first_message |-> user_messages[1],
             start_time |-> hist_block.timestamp,
             message_count |-> Len(hist_block.payload.data),
             messages |-> [i \in 1..Len(built) |-> built[i].value]]]]

(* The conversation with start_time taken from the oldest block of the log *)
(* instead of the claimed one.                                             *)
BuildConversationEarliestStart(history_blocks, hist_block, user_messages, ordinal) ==
  LET built == [i \in 1..Len(user_messages) |->
                  BuildMessage(history_blocks, hist_block, user_messages, i)]
  IN  [raised |-> FirstRaised(built),
       value |->
         [user_messages |-> user_messages,
          timestamp |-> hist_block.timestamp,
          line_number |-> hist_block.line_number,
          conversation |->
            [chat_id |-> [ordinal |-> ordinal, stamp |-> hist_block.timestamp],
             first_message |-> user_messages[1],
             start_time |-> history_blocks[Len(history_blocks)].timestamp,
             message_count |-> Len(user_messages),
             messages |-> [i \in 1..Len(built) |-> built[i].value]]]]

(* Lines 353 and 447-459: the conversation and its found_conversations     *)
(* entry.  chat_id is f"conv_{ordinal}_{timestamp}".                       *)
BuildConversation(history_blocks, hist_block, user_messages, ordinal) ==
  LET built == [i \in 1..Len(user_messages) |->
                  BuildMessage(history_blocks, hist_block, user_messages, i)]
  IN  [raised |-> FirstRaised(built),
       value |->
         [user_messages |-> user_messages,
          timestamp |-> hist_block.timestamp,
          line_number |-> hist_block.line_number,   \* history: the block claimed
          conversation |->
            [chat_id |-> [ordinal |-> ordinal, stamp |-> hist_block.timestamp],
             first_message |-> user_messages[1],
             start_time |-> hist_block.timestamp,
             message_count |-> Len(user_messages),
             messages |-> [i \in 1..Len(built) |-> built[i].value]]]]

(* Lines 447-459: the conversation built joins found_conversations,        *)
(* unless building it raised.                                              *)
Claimed(found_conversations, built) ==
  IF built.raised # NotRaised
  THEN [raised |-> built.raised, found |-> found_conversations]
  ELSE [raised |-> NotRaised, found |-> Append(found_conversations, built.value)]

(* Lines 286-464: one block against the accumulator.  It is skipped when   *)
(* it does not decode, holds no user message or repeats a prefix of a      *)
(* conversation found; it is claimed otherwise.                            *)
ClaimBlock(history_blocks, hist_block, found_conversations) ==
  LET data == hist_block.payload.data
      user_messages == UserMessages(data)
  IN  IF DecodeRaises(hist_block.payload)
      THEN [raised |-> "RecursionError", found |-> found_conversations]
      ELSE IF ~Decodes(hist_block.payload)
      THEN [raised |-> NotRaised, found |-> found_conversations]
      ELSE IF UserMessagesRaises(data)
      THEN [raised |-> "AttributeError", found |-> found_conversations]
      ELSE IF user_messages = <<>> \/ IsSubset(user_messages, found_conversations)
      THEN [raised |-> NotRaised, found |-> found_conversations]
      ELSE Claimed(found_conversations,
                   BuildConversation(history_blocks, hist_block, user_messages,
                                     Len(found_conversations) + 1))

(* Lines 285-464: the blocks, newest first, against the accumulator; an    *)
(* exception ends the loop.                                                *)
RECURSIVE ProcessBlocks(_, _, _)
ProcessRest(history_blocks, p, step) ==
  IF step.raised # NotRaised THEN step
  ELSE ProcessBlocks(history_blocks, p + 1, step.found)

ProcessBlocks(history_blocks, p, found_conversations) ==
  IF p > Len(history_blocks)
  THEN [raised |-> NotRaised, found |-> found_conversations]
  ELSE ProcessRest(history_blocks, p,
                   ClaimBlock(history_blocks, history_blocks[p], found_conversations))

(* The dict filled without being emptied first: old keys past the new     *)
(* count stay.                                                             *)
MergeConversations(old, found_sorted) ==
  [i \in 1..(IF Len(old) > Len(found_sorted) THEN Len(old) ELSE Len(found_sorted)) |->
     IF i <= Len(found_sorted) THEN found_sorted[i].conversation ELSE old[i]]

(* Lines 469-472: the dict is emptied, then filled under conversation_<i>. *)
AssignConversations(old, found_sorted) ==
  [i \in 1..Len(found_sorted) |-> found_sorted[i].conversation]

(* One pass over a readable file.                                          *)
Reconstruct(log, nows) ==
  LET history_blocks == SortNewestFirst(HistoryBlocks(log, nows))
      pass == ProcessBlocks(history_blocks, 1, <<>>)
  IN  [raised |-> pass.raised, found |-> SortOldestFirst(pass.found)]

----------------------------------------------------------------------------
(* The logs explored.                                                      *)
RECURSIVE SumTo(_, _)
SumTo(sizes, n) == IF n = 0 THEN 0 ELSE sizes[n] + SumTo(sizes, n - 1)

(* Every way to write at most `turns` elements of `elements` as `k`        *)
(* non-empty arrays, each block stamped from `stamps` and carrying one of  *)
(* `texts`.                                                                *)
LogsOf(k, turns, elements, stamps, texts) ==
  UNION { { [i \in 1..k |->
               Block(ts[i],
                     Array(SubSeq(flat, SumTo(sizes, i - 1) + 1, SumTo(sizes, i))),
                     tx[i])] :
            flat \in [1..SumTo(sizes, k) -> elements],
            ts \in [1..k -> stamps],
            tx \in [1..k -> texts] } :
          sizes \in {z \in [1..k -> 1..turns] : SumTo(z, k) <= turns} }

(* Every log of at most MaxBlocks blocks drawn from `blocks`.              *)
LogsOver(blocks) == UNION { [1..k -> blocks] : k \in 0..MaxBlocks }

(* Snapshots of user and assistant turns with valid timestamps.            *)
SnapshotTurns == {User(hi), User(bye), Assistant(hello)}

SnapshotLogs ==
  UNION { LogsOf(k, MaxLogTurns, SnapshotTurns, 1..MaxBlocks, {<<>>}) :
          k \in 0..MaxBlocks }

(* Blocks that carry document records.                                     *)
TwoDocLines ==
  <<TextLine("Knowledge"),
    IdLine("1"), TitleLine("T1"), ContentLine("c1"), TextLine("more"), SepLine,
    IdLine("2"), TitleLine("T2"), ContentLine("c2"), <<" ", "}", ",", "]", "}">> >>

TwoDocs == JoinLines(TwoDocLines, Newline)

(* The same records as the server logs them inside a string literal.       *)
TwoDocsEscaped == JoinLines(TwoDocLines, EscapedNewline)

DocumentLogs ==
  UNION { LogsOf(k, MaxLogTurns, {User(hi), User(bye)}, 1..MaxBlocks,
                 IF k = 1 THEN {<<>>, TwoDocs, TwoDocsEscaped} ELSE {<<>>, TwoDocs}) :
          k \in 0..MaxBlocks }

(* Blocks whose payload is missing, unbalanced, undecodable or of an       *)
(* unexpected shape, beside well-formed ones.  All carry the same          *)
(* timestamp, so the file order is the processing order.                   *)
FaultPayloads ==
  { NoJson, Unclosed, BadJson, TooDeep,
    Array(<<NonDict>>),
    Array(<<DictOddContent("user")>>),
    Array(<<User(hi), DictOddContent("assistant")>>),
    Array(<<DictOddContent("system"), User(hi), DictNoContent("assistant")>>),
    Array(<<DictNoContent("user")>>),
    Array(<<Dict("system", hello)>>),
    Array(<<User(hi_padded), Assistant(hi_padded)>>) }

GoodPayloads ==
  { Array(<<User(hi)>>), Array(<<User(hi), Assistant(hello), User(bye)>>),
    Array(<<User(bye)>>) }

FaultLogs ==
  LogsOver({Block(1, p, <<>>) : p \in FaultPayloads \cup GoodPayloads})

(* Blocks whose leading digits are no date/time, beside dated ones.        *)
UndatedPayloads ==
  { Array(<<User(hi)>>), Array(<<User(hi), Assistant(hello), User(bye)>>) }

BadDateLogs ==
  LogsOver({Block(ts, p, <<>>) : ts \in {BadDate} \cup 1..MaxBlocks,
                                p \in UndatedPayloads})

(* The end-to-end scenario: block1 = [user x], block2 = block3 =           *)
(* [user x, assistant y, user z], stamped t1 < t2 < t3, in any file order. *)
Orders3 ==
  { <<1, 2, 3>>, <<1, 3, 2>>, <<2, 1, 3>>, <<2, 3, 1>>, <<3, 1, 2>>, <<3, 2, 1>> }

EndToEndBlocks(t1, t2, t3, x, y, z) ==
  << Block(t1, Array(<<User(x)>>), <<>>),
     Block(t2, Array(<<User(x), Assistant(y), User(z)>>), <<>>),
     Block(t3, Array(<<User(x), Assistant(y), User(z)>>), <<>>) >>

Rising3 == {t \in Time \X Time \X Time : t[1] < t[2] /\ t[2] < t[3]}

EndToEndLogs ==
  { [i \in 1..3 |-> EndToEndBlocks(t[1], t[2], t[3], x, hello, z)[order[i]]] :
      t \in Rising3, x \in {hi, bye}, z \in {hi, bye}, order \in Orders3 }

(* Two blocks of two user turns each, with and without document records:   *)
(* snapshots of different conversations that end in the same user text.    *)
TwoTurnPayloads == {Array(<<User(a), User(b)>>) : a, b \in {hi, bye}}

CrossTalkLogs ==
  [1..2 -> {Block(ts, p, tx) : ts \in 1..MaxBlocks, p \in TwoTurnPayloads,
                               tx \in {<<>>, TwoDocs}}]

Logs ==
  SnapshotLogs \cup DocumentLogs \cup FaultLogs \cup BadDateLogs \cup EndToEndLogs
    \cup CrossTalkLogs

----------------------------------------------------------------------------
(* datetime.now() over one pass: nows[i] is read while block i is          *)
(* segmented, and is read only for a block whose timestamp does not parse. *)
(* It is the naive local wall-clock time: a reading may be earlier than    *)
(* the one before it (the clock or the zone is set back).                  *)
NowChoices(log, from) ==
  { nows \in [1..Len(log) -> 1..MaxNow] :
      \A i \in 1..Len(log) :
         LET before == IF i = 1 THEN from ELSE nows[i - 1]
         IN  log[i].ts \in Time => nows[i] = before }

LastNow(nows, from) == IF Len(nows) = 0 THEN from ELSE nows[Len(nows)]

----------------------------------------------------------------------------
Init ==
  /\ logfile \in {File(log) : log \in Logs}
  /\ conversations = <<>>
  /\ claimed = <<>>
  /\ outcome = "none"
  /\ calls = 0
  /\ clock = 1
  /\ touched = TRUE
  /\ previous = <<>>
  /\ reread = FALSE
  /\ json_part = <<>>
  /\ json_str = [st |-> "idle", str |-> <<>>]
  /\ lines = <<>>
  /\ segments = [st |-> "idle", blocks |-> <<>>]

(* analyze_logfile on a file that opens.                                   *)
AnalyzeLogfile ==
  /\ logfile.present
  /\ calls < MaxCalls
  /\ \E nows \in NowChoices(logfile.blocks, clock) :
     \E pass \in {Reconstruct(logfile.blocks, nows)} :
        /\ clock' = LastNow(nows, clock)
        /\ IF pass.raised # NotRaised
           THEN /\ outcome' = pass.raised
                /\ UNCHANGED <<conversations, claimed, calls, touched, previous,
                               reread>>
           ELSE /\ outcome' = "ok"
                /\ conversations' = AssignConversations(conversations, pass.found)
                /\ claimed' = [i \in 1..Len(pass.found) |-> pass.found[i].line_number]
                /\ previous' = conversations
                /\ reread' = (calls > 0 /\ ~touched)
                /\ calls' = calls + 1
                /\ touched' = FALSE
  /\ UNCHANGED <<logfile, json_part, json_str, lines, segments>>

(* analyze_logfile on a file that does not open: open() raises at line 232.*)
AnalyzeMissingFile ==
  /\ ~logfile.present
  /\ outcome' = "FileNotFoundError"
  /\ UNCHANGED <<logfile, conversations, claimed, calls, clock, touched, previous,
                 reread, json_part, json_str, lines, segments>>

(* The environment: the oldest block is rotated out of the file.           *)
RotateLog ==
  /\ logfile.present
  /\ logfile.blocks # <<>>
  /\ logfile' = File(Tail(logfile.blocks))
  /\ touched' = TRUE
  /\ UNCHANGED <<conversations, claimed, outcome, calls, clock, previous, reread,
                 json_part, json_str, lines, segments>>

(* The environment: the file is removed.                                   *)
DeleteLog ==
  /\ logfile.present
  /\ logfile' = NoFile
  /\ touched' = TRUE
  /\ UNCHANGED <<conversations, claimed, outcome, calls, clock, previous, reread,
                 json_part, json_str, lines, segments>>

Next == AnalyzeLogfile \/ AnalyzeMissingFile \/ RotateLog \/ DeleteLog

Spec == Init /\ [][Next]_vars

----------------------------------------------------------------------------
(* The bracket scan on its own: the text after the marker is any string of *)
(* at most MaxLen characters, and the scan is applied to it.               *)
Chars == {"[", "]", "{", Quote, Backslash}

(* The text after the marker comes bare or wrapped in whitespace.          *)
Paddings == { <<<<>>, <<>>>>, <<<<"\t">>, <<" ", "\n">>>> }

Payloads ==
  { pad[1] \o s \o pad[2] :
      s \in UNION { [1..n -> Chars] : n \in 0..MaxLen }, pad \in Paddings }

InitScan ==
  /\ logfile = NoFile
  /\ conversations = <<>>
  /\ claimed = <<>>
  /\ outcome = "none"
  /\ calls = 0
  /\ clock = 1
  /\ touched = TRUE
  /\ previous = <<>>
  /\ reread = FALSE
  /\ json_part \in Payloads
  /\ json_str = [st |-> "idle", str |-> <<>>]
  /\ lines = <<>>
  /\ segments = [st |-> "idle", blocks |-> <<>>]

ScanPayload ==
  /\ json_str.st = "idle"
  /\ json_str' = ExtractJson(json_part)
  /\ UNCHANGED <<logfile, conversations, claimed, outcome, calls, clock, touched,
                 previous, reread, json_part, lines, segments>>

NextScan == ScanPayload

SpecScan == InitScan /\ [][NextScan]_vars

----------------------------------------------------------------------------
(* The segmenter of analyze_logfile (lines 235-275) on its own.  A line is *)
(* a sequence of tokens:                                                   *)
(*   "DATE"  text matching \d{4}-\d{2}-\d{2} \d{2}:\d{2}:\d{2}             *)
(*   "MS"    text matching ,\d{3}                                          *)
(*   "MARK"  the text [HISTORY][                                           *)
(*   "TXT"   any other text                                                *)
(* The file's text split at newlines is never the empty list: the empty    *)
(* file is one empty line.                                                 *)
MaxLines == 3

(* '[HISTORY][' in line                                                    *)
HasMarker(line) == \E k \in 1..Len(line) : line[k] = "MARK"

(* re.match(r'^(\d{4}-\d{2}-\d{2} \d{2}:\d{2}:\d{2},\d{3})', line)         *)
TimestampMatch(line) == Len(line) >= 2 /\ line[1] = "DATE" /\ line[2] = "MS"

(* re.match(r'^\d{4}-\d{2}-\d{2} \d{2}:\d{2}:\d{2}', next_line)            *)
StartsWithTimestamp(line) == Len(line) >= 1 /\ line[1] = "DATE"

(* Lines 255-260: the first index from j on of a line that starts with a   *)
(* timestamp, len(lines)+1 when there is none.                             *)
RECURSIVE BlockEnd(_, _)
BlockEnd(ls, j) ==
  IF j > Len(ls) \/ StartsWithTimestamp(ls[j]) THEN j ELSE BlockEnd(ls, j + 1)

(* The loop continuing after the terminating line instead of at it.        *)
RECURSIVE SegmentConsuming(_, _)
SegmentConsuming(ls, i) ==
  IF i > Len(ls) THEN <<>>
  ELSE IF HasMarker(ls[i]) /\ TimestampMatch(ls[i])
       THEN LET j == BlockEnd(ls, i + 1)
            IN  <<[timestamp_str |-> SubSeq(ls[i], 1, 2),
                   content |-> SubSeq(ls, i, j - 1),
                   line_number |-> i - 1]>>
                \o SegmentConsuming(ls, j + 1)
       ELSE SegmentConsuming(ls, i + 1)

(* Lines 240-275, with i counted from 1; line_number is the 0-based index  *)
(* the code stores.  'timestamp' is parse_timestamp of timestamp_str.      *)
RECURSIVE Segment(_, _)
Segment(ls, i) ==
  IF i > Len(ls) THEN <<>>
  ELSE IF HasMarker(ls[i]) /\ TimestampMatch(ls[i])
       THEN LET j == BlockEnd(ls, i + 1)
            IN  <<[timestamp_str |-> SubSeq(ls[i], 1, 2),
                   content |-> SubSeq(ls, i, j - 1),
                   line_number |-> i - 1]>>
                \o Segment(ls, j)
       ELSE Segment(ls, i + 1)

(* The lines explored: with and without marker, with a full, a short or no *)
(* leading timestamp, with a timestamp that is not leading, and empty.     *)
LineShapes ==
  { <<"DATE", "MS", "TXT", "MARK">>,
    <<"DATE", "MS", "TXT">>,
    <<"DATE", "TXT", "MARK">>,
    <<"DATE", "TXT">>,
    <<"TXT", "MARK">>,
    <<"TXT", "DATE", "MS", "MARK">>,
    <<"TXT">>,
    <<>> }

LineLists == UNION { [1..n -> LineShapes] : n \in 1..MaxLines }

InitSegment ==
  /\ logfile = NoFile
  /\ conversations = <<>>
  /\ claimed = <<>>
  /\ outcome = "none"
  /\ calls = 0
  /\ clock = 1
  /\ touched = TRUE
  /\ previous = <<>>
  /\ reread = FALSE
  /\ json_part = <<>>
  /\ json_str = [st |-> "idle", str |-> <<>>]
  /\ lines \in LineLists
  /\ segments = [st |-> "idle", blocks |-> <<>>]

SegmentLines ==
  /\ segments.st = "idle"
  /\ segments' = [st |-> "done", blocks |-> Segment(lines, 1)]
  /\ UNCHANGED <<logfile, conversations, claimed, outcome, calls, clock, touched,
                 previous, reread, json_part, json_str, lines>>

NextSegment == SegmentLines

SpecSegment == InitSegment /\ [][NextSegment]_vars

----------------------------------------------------------------------------
(* Properties.                                                             *)
(* The set in self.conversations is what a completed call made of the file *)
(* as it still is.                                                         *)
Analysed == outcome = "ok" /\ ~touched /\ logfile.present

Blocks == logfile.blocks

UserTextsOf(conv) == [i \in 1..Len(conv.messages) |-> conv.messages[i].user_message]

Min3(a, b, c) == CHOOSE m \in {a, b, c} : \A o \in {a, b, c} : m <= o

EndToEnd == Analysed /\ Blocks \in EndToEndLogs

(* The text of the one-turn block of an end-to-end log.                    *)
OpeningText(log) ==
  LET i == CHOOSE i \in 1..Len(log) : Len(log[i].payload.data) = 1
  IN  log[i].payload.data[1].content

(* C1: for three HISTORY blocks stamped T1 < T2 < T3 with turn lists       *)
(* [user x], [user x, assistant y, user z] and a copy of the second,       *)
(* analyze_logfile leaves exactly one conversation; it has exactly two     *)
(* messages and its first_message is x.                                    *)
C1_EndToEndOneConversation ==
  EndToEnd =>
    /\ Len(conversations) = 1
    /\ conversations[1].message_count = 2
    /\ Len(conversations[1].messages) = 2
    /\ conversations[1].first_message = OpeningText(Blocks)

C1_Witness ==
  /\ EndToEnd
  /\ OpeningText(Blocks) = hi
  /\ Len(conversations) = 1
  /\ UserTextsOf(conversations[1]) = <<hi, bye>>

(* C2: in the three-block scenario the start_time of the conversation is   *)
(* T1, the timestamp of the earliest snapshot.                             *)
C2_StartTimeIsEarliest ==
  EndToEnd =>
    \A n \in 1..Len(conversations) :
       conversations[n].start_time = Min3(Blocks[1].ts, Blocks[2].ts, Blocks[3].ts)

(* The block conversation n was built from.                                *)
ClaimedBlock(n) == Blocks[claimed[n]]

BuiltFrom(i) == \E n \in 1..Len(conversations) : claimed[n] = i

StrictPrefix(a, b) == Len(a) < Len(b) /\ a = SubSeq(b, 1, Len(a))

(* C3: of two decoded blocks of which one's user-turn list is a strictly   *)
(* shorter prefix of the other's, the set never holds a conversation built *)
(* from each.                                                              *)
C3_PrefixPairNeverBoth ==
  Analysed =>
    \A i, j \in 1..Len(Blocks) :
       ( /\ Decodes(Blocks[i].payload)
         /\ Decodes(Blocks[j].payload)
         /\ StrictPrefix(UserMessages(Blocks[i].payload.data),
                         UserMessages(Blocks[j].payload.data)) )
       => ~(BuiltFrom(i) /\ BuiltFrom(j))

Decodable(block) == Decodes(block.payload)

(* C4: whatever is wrong with one block's payload, the call completes and  *)
(* the set is the one of the other blocks; only a file that does not open  *)
(* ends the call early.                                                    *)
C4_FaultyBlockAloneSkipped ==
  /\ outcome \in {"none", "ok", "FileNotFoundError"}
  /\ (Analysed /\ \A i \in 1..Len(Blocks) : Blocks[i].ts \in Time) =>
       LET rest == SelectSeq(Blocks, Decodable)
           pass == Reconstruct(rest, [i \in 1..Len(rest) |-> clock])
       IN  conversations = [i \in 1..Len(pass.found) |-> pass.found[i].conversation]

(* C5: when the last turn of a claimed block is a user turn, the Message   *)
(* of that turn carries the sentinel as claude_response.                   *)
C5_LastUserTurnHasSentinel ==
  Analysed =>
    \A n \in 1..Len(conversations) :
       LET data == ClaimedBlock(n).payload.data
           messages == conversations[n].messages
       IN  IsUser(data[Len(data)]) =>
             messages[Len(messages)].claude_response = NoResponse

(* The two records of TwoDocs, as the extractor has to return them.        *)
TwoDocsExtracted ==
  << [id |-> <<"1">>, title |-> <<"T1">>, content |-> <<"c1", Newline, "more">>],
     [id |-> <<"2">>, title |-> <<"T2">>, content |-> <<"c2">>] >>

(* Block a = [user u1] with two document records, block b = [user u1,      *)
(* user u2] without any and with the later timestamp.                      *)
DocumentScenario(a, b) ==
  /\ Analysed
  /\ Len(Blocks) = 2
  /\ {a, b} = {1, 2}
  /\ Blocks[a].text = TwoDocs
  /\ Blocks[b].text = <<>>
  /\ Blocks[a].ts < Blocks[b].ts
  /\ Len(UserMessages(Blocks[a].payload.data)) = 1
  /\ Len(UserMessages(Blocks[b].payload.data)) = 2
  /\ UserMessages(Blocks[a].payload.data)[1] = UserMessages(Blocks[b].payload.data)[1]

(* C6: in that scenario the conversation is built from block b and its     *)
(* first Message carries the two documents of block a's text.              *)
C6_FirstMessageHasEarlierDocuments ==
  \A a, b \in 1..2 :
     DocumentScenario(a, b) =>
       /\ Len(conversations) = 1
       /\ claimed[1] = b
       /\ conversations[1].messages[1].context_documents = TwoDocsExtracted

C6_Witness ==
  /\ DocumentScenario(1, 2)
  /\ UserTextsOf(conversations[1]) = <<hi, bye>>
  /\ conversations[1].messages[2].context_documents = <<>>

(* C7: two calls on the same unchanged text leave the same set: the same   *)
(* conversations under the same keys with the same messages.               *)
C7_RereadGivesSameSet == reread => conversations = previous

(* C9, as stated: every conversation has message_count = len(messages),    *)
(* and message i carries the content of the i-th user turn of the block    *)
(* the conversation was built from, as the block has it.                   *)
C9_MessagesAreTheRawUserTurns ==
  \A n \in 1..Len(conversations) :
     LET conv == conversations[n]
     IN  /\ conv.message_count = Len(conv.messages)
         /\ Analysed =>
              LET turns == SelectSeq(ClaimedBlock(n).payload.data, IsUser)
              IN  /\ Len(conv.messages) = Len(turns)
                  /\ \A i \in 1..Len(turns) :
                        conv.messages[i].user_message = GetContent(turns[i])

(* C9, amended: every conversation has message_count = len(messages), and  *)
(* message i carries the content of the i-th user turn of the block the    *)
(* conversation was built from with leading and trailing whitespace        *)
(* removed (the empty string when the turn has no content key).            *)
C9_MessagesAreTheUserTurns ==
  \A n \in 1..Len(conversations) :
     LET conv == conversations[n]
     IN  /\ conv.message_count = Len(conv.messages)
         /\ Analysed =>
              LET turns == SelectSeq(ClaimedBlock(n).payload.data, IsUser)
              IN  /\ Len(conv.messages) = Len(turns)
                  /\ \A i \in 1..Len(turns) :
                        conv.messages[i].user_message = Strip(GetContent(turns[i]))

(* A conversation of two messages built from a block of three turns, and   *)
(* one built from a block whose user turn is padded with blanks.           *)
C9_Witness ==
  /\ Analysed
  /\ \E n \in 1..Len(conversations) :
        /\ conversations[n].message_count = 2
        /\ Len(ClaimedBlock(n).payload.data) = 3
        /\ UserTextsOf(conversations[n]) = <<hi, bye>>
  /\ \E n \in 1..Len(conversations) :
        /\ ClaimedBlock(n).payload.data[1] = User(hi_padded)
        /\ UserTextsOf(conversations[n]) = <<hi>>

(* C10: after a second completed call the set is exactly what that call    *)
(* reconstructs from the file it read; nothing of the first call is kept.  *)
C10_SecondCallReplaces ==
  (calls >= 2 /\ Analysed) =>
    /\ Len(conversations) <= Len(Blocks)
    /\ \E nows \in NowChoices(Blocks, 1) :
          LET pass == Reconstruct(Blocks, nows)
          IN  /\ pass.raised = NotRaised
              /\ conversations =
                   [i \in 1..Len(pass.found) |-> pass.found[i].conversation]

C10_Witness ==
  /\ calls >= 2
  /\ Analysed
  /\ Len(previous) = 2
  /\ Len(conversations) = 1
  /\ conversations[1] # previous[1]

----------------------------------------------------------------------------
(* The reading of a payload that C8 refers to, stated without the scan's   *)
(* flags.  A quote outside a string literal opens one; the literal ends at *)
(* the next quote preceded, inside the literal, by an even number of       *)
(* backslashes; it runs to the end of the text when there is none.         *)
RECURSIVE BackslashRun(_, _, _)
BackslashRun(s, q, open) ==
  IF q - 1 > open /\ s[q - 1] = Backslash THEN 1 + BackslashRun(s, q - 1, open) ELSE 0

Least(set) == CHOOSE m \in set : \A o \in set : m <= o

LiteralEnd(s, open) ==
  LET ends == {q \in (open + 1)..Len(s) :
                 s[q] = Quote /\ BackslashRun(s, q, open) % 2 = 0}
  IN  IF ends = {} THEN Len(s) ELSE Least(ends)

RECURSIVE LiteralPositions(_, _)
LiteralPositions(s, from) ==
  LET opens == {o \in from..Len(s) : s[o] = Quote}
  IN  IF opens = {} THEN {}
      ELSE LET open == Least(opens)
               close == LiteralEnd(s, open)
           IN  (open..close) \cup LiteralPositions(s, close + 1)

Depth(s, k) ==
  LET outside == (1..k) \ LiteralPositions(s, 1)
  IN  Cardinality({i \in outside : s[i] = "["}) - Cardinality({i \in outside : s[i] = "]"})

ClosingBrackets(s) ==
  {k \in (1..Len(s)) \ LiteralPositions(s, 1) : s[k] = "]" /\ Depth(s, k) = 0}

ArrayPayload == Strip(json_part) # <<>> /\ Head(Strip(json_part)) = "["

(* C8: for a payload that begins with an array, the substring handed to    *)
(* the decoder ends exactly at the first `]` outside a string literal at   *)
(* which the depth is back to zero: brackets inside literals do not count, *)
(* an escaped quote does not end a literal, nothing after that `]` is      *)
(* decoded.                                                                *)
C8_DecodedEndsAtMatchingBracket ==
  (json_str.st # "idle" /\ ArrayPayload /\ ClosingBrackets(Strip(json_part)) # {}) =>
     /\ json_str.st = "scanned"
     /\ json_str.str = SubSeq(Strip(json_part), 1, Least(ClosingBrackets(Strip(json_part))))

(* ["]"]{ : a bracket inside the literal and a trailer after the closing   *)
(* bracket.                                                                *)
C8_Witness ==
  /\ json_part = <<"[", Quote, "]", Quote, "]", "{">>
  /\ json_str = [st |-> "scanned", str |-> <<"[", Quote, "]", Quote, "]">>]

----------------------------------------------------------------------------
(* The keys of self.conversations: entry i of `conversations` is the value *)
(* stored under f"conversation_{i}" (line 471), in insertion order.        *)
Keys == DOMAIN conversations

(* C11: with N conversations the keys are conversation_1..conversation_N,  *)
(* and they ascend with the start time: for i < j the start_time of        *)
(* conversation_i is not later than that of conversation_j.                *)
C11_KeysAscendWithStartTime ==
  /\ Keys = 1..Len(conversations)
  /\ \A i, j \in Keys :
        i < j => conversations[i].start_time <= conversations[j].start_time

(* Two conversations of different start times, the older one built from    *)
(* the block that comes later in the file.                                 *)
C11_Witness ==
  /\ Analysed
  /\ Len(conversations) = 2
  /\ conversations[1].start_time < conversations[2].start_time
  /\ claimed = <<2, 1>>

(* Ids.  The id made when a block is claimed is                            *)
(* f"conv_{ordinal}_{timestamp}" (line 353): a record of the ordinal and   *)
(* the timestamp.  The key of line 471 is f"conversation_{i}": a record of *)
(* the ordinal alone.                                                      *)
ConversationKey(i) == [ordinal |-> i]

IsSyntheticId(id) == DOMAIN id = {"ordinal", "stamp"}

(* C12: after analyze_logfile every Conversation's own id equals the key   *)
(* conversation_N it is stored under, and none carries a synthetic         *)
(* conv_<ordinal>_<timestamp> id.                                          *)
C12_IdIsTheSequentialKey ==
  Analysed =>
    \A n \in Keys :
       /\ conversations[n].chat_id = ConversationKey(n)
       /\ ~IsSyntheticId(conversations[n].chat_id)

(* The position, in a block's turn sequence, of its i-th user turn.        *)
UserTurnIndex(data, i) ==
  CHOOSE p \in 1..Len(data) :
     IsUser(data[p]) /\ Cardinality({q \in 1..p : IsUser(data[q])}) = i

(* The response the pairing by position gives: the (stripped) content of   *)
(* the first assistant turn after position p, the sentinel without one.    *)
ResponseAfter(data, p) ==
  LET k == FirstAssistantAfter(data, p)
  IN  IF k = 0 THEN NoResponse ELSE Strip(GetContent(data[k]))

(* C13: for every claimed block and every i, the Message of the i-th user  *)
(* turn has as claude_response the content of the first assistant turn     *)
(* after the position of that i-th user turn, the sentinel when there is   *)
(* none, also when the same user text occurs at several positions.         *)
C13_ResponseFollowsTurnPosition ==
  Analysed =>
    \A n \in Keys :
       LET data == ClaimedBlock(n).payload.data
           messages == conversations[n].messages
       IN  \A i \in 1..Len(messages) :
              messages[i].claude_response = ResponseAfter(data, UserTurnIndex(data, i))

----------------------------------------------------------------------------
(* The reading of the line list that C14 refers to, stated without the     *)
(* loop.  A block starts at every line that holds the marker and starts    *)
(* with a full timestamp; it ends before the next line that starts with a  *)
(* timestamp, or with the last line.                                       *)
BlockStarts == {i \in 1..Len(lines) : HasMarker(lines[i]) /\ TimestampMatch(lines[i])}

LastLineOf(i) ==
  LET stops == {j \in (i + 1)..Len(lines) : StartsWithTimestamp(lines[j])}
  IN  IF stops = {} THEN Len(lines) ELSE Least(stops) - 1

(* The lines block k covers, by its stored line number and its length.     *)
LinesOf(k) ==
  LET b == segments.blocks[k]
  IN  (b.line_number + 1)..(b.line_number + Len(b.content))

(* C14: the segmenter leaves one block per line that holds the marker and  *)
(* starts with a full timestamp; the block's text is that line and the     *)
(* lines after it up to, not including, the next line that starts with a   *)
(* timestamp, or up to the end of the file; the terminating line is itself *)
(* examined as a start; blocks come in line order and no line is in two.   *)
C14_OneBlockPerMarkedLine ==
  segments.st = "done" =>
    LET blocks == segments.blocks
    IN  /\ {blocks[k].line_number + 1 : k \in 1..Len(blocks)} = BlockStarts
        /\ Len(blocks) = Cardinality(BlockStarts)
        /\ \A k \in 1..Len(blocks) :
              LET i == blocks[k].line_number + 1
              IN  blocks[k].content = SubSeq(lines, i, LastLineOf(i))
        /\ \A k, m \in 1..Len(blocks) :
              k < m => /\ blocks[k].line_number < blocks[m].line_number
                       /\ LinesOf(k) \cap LinesOf(m) = {}

(* A marked line, a continuation line, and a marked line that both ends    *)
(* the first block and starts the second.                                  *)
C14_Witness ==
  /\ lines = << <<"DATE", "MS", "TXT", "MARK">>, <<"TXT">>,
                <<"DATE", "MS", "TXT", "MARK">> >>
  /\ segments.st = "done"
  /\ Len(segments.blocks) = 2
  /\ Len(segments.blocks[1].content) = 2
  /\ segments.blocks[2].line_number = 2

----------------------------------------------------------------------------
(* C15: in every conversation all Messages carry one timestamp, it equals  *)
(* the conversation's start_time, and that is the timestamp of the single  *)
(* block the conversation was claimed from (for a block whose leading      *)
(* digits are no date/time: a wall-clock reading of the call).             *)
C15_OneTimestampPerConversation ==
  /\ \A n \in Keys :
        \A i \in 1..Len(conversations[n].messages) :
           conversations[n].messages[i].timestamp = conversations[n].start_time
  /\ Analysed =>
       \A n \in Keys :
          IF ClaimedBlock(n).ts \in Time
          THEN conversations[n].start_time = ClaimedBlock(n).ts
          ELSE conversations[n].start_time \in 1..MaxNow

(* A conversation of two messages claimed from the later of two blocks.    *)
C15_Witness ==
  /\ Analysed
  /\ Len(Blocks) = 2
  /\ Blocks[1].ts = 2
  /\ Blocks[2].ts = 1
  /\ conversations # <<>>
  /\ claimed[Len(claimed)] = 1
  /\ Len(conversations[Len(conversations)].messages) = 2
  /\ conversations[Len(conversations)].messages[2].timestamp = 2

----------------------------------------------------------------------------
(* The decoded blocks of the file whose (stripped) user-turn list is `u`.  *)
BlocksWith(u) ==
  {i \in 1..Len(Blocks) :
     Decodes(Blocks[i].payload) /\ UserMessages(Blocks[i].payload.data) = u}

(* C16: no two conversations of the set have the same user-turn list, so   *)
(* blocks with identical non-empty user-turn lists give at most one        *)
(* conversation with that list, whatever their timestamps and positions;   *)
(* and no conversation is built from a block without user turns.           *)
C16_DuplicatesRegisteredOnce ==
  /\ \A n, m \in Keys :
        UserTextsOf(conversations[n]) = UserTextsOf(conversations[m]) => n = m
  /\ \A n \in Keys : conversations[n].messages # <<>>
  /\ Analysed =>
       \A n \in Keys : UserMessages(ClaimedBlock(n).payload.data) # <<>>

(* Two blocks with the same user-turn list and the same timestamp, and one *)
(* conversation.                                                           *)
C16_Witness ==
  /\ Analysed
  /\ Len(Blocks) = 2
  /\ Blocks[1].ts = Blocks[2].ts
  /\ BlocksWith(<<hi, bye>>) = {1, 2}
  /\ Len(conversations) = 1
  /\ UserTextsOf(conversations[1]) = <<hi, bye>>

----------------------------------------------------------------------------
(* The decoded blocks with exactly i user turns of which the last is the   *)
(* i-th of `texts`, and those whose whole user-turn list is the first i of *)
(* `texts`.                                                                *)
EndingLike(texts, i) ==
  {b \in 1..Len(Blocks) :
     /\ Decodes(Blocks[b].payload)
     /\ Len(UserMessages(Blocks[b].payload.data)) = i
     /\ UserMessages(Blocks[b].payload.data)[i] = texts[i]}

SnapshotsOf(texts, i) ==
  {b \in 1..Len(Blocks) :
     /\ Decodes(Blocks[b].payload)
     /\ UserMessages(Blocks[b].payload.data) = SubSeq(texts, 1, i)}

(* C17: the documents of the i-th Message come from a snapshot of the same *)
(* conversation: when the Message has documents, they are the extraction   *)
(* of a block whose user-turn list is the first i user turns of the        *)
(* conversation; with no block of exactly i user turns ending in that turn *)
(* the list is empty.                                                      *)
C17_DocumentsFromOwnSnapshot ==
  Analysed =>
    \A n \in Keys :
       LET texts == UserTextsOf(conversations[n])
       IN  \A i \in 1..Len(texts) :
              LET docs == conversations[n].messages[i].context_documents
              IN  /\ EndingLike(texts, i) = {} => docs = <<>>
                  /\ docs # <<>> =>
                        \E b \in SnapshotsOf(texts, i) :
                           docs = extract_context_documents(Blocks[b].text)

====
